---- MODULE Spec2Model ----
(***************************************************************************)
(* Model of scale_map.py: a two-stage map-reduce pipeline.                 *)
(*   mapper       counts the integers of one file                          *)
(*   run_mappers  runs mapper over the data files in a process pool and    *)
(*                saves each result as mapper_output_<i>.json              *)
(*   reducer      merges every *.json of the output directory, sorts by    *)
(*                frequency and writes the top 6 to final_output.txt       *)
(*   main         run_mappers(); reducer()                                 *)
(*                                                                         *)
(* Text is a sequence of one-character strings.  A Python dict is a        *)
(* sequence of <<key, value>> pairs with distinct keys, in insertion       *)
(* order (dicts iterate in insertion order, and the order decides ties in  *)
(* the stable sort of the reducer).                                        *)
(***************************************************************************)
EXTENDS Integers, Sequences, FiniteSets

VARIABLES
    dataDir,        \* DATA_DIR: its entries, in directory-listing order
    outdir,         \* REDUCER_DIR: record index i -> file mapper_output_<i>.json
    report,         \* REDUCER_DIR/final_output.txt
    written,        \* names opened for writing during this run
    log,            \* conditions and warnings printed so far
    pc,             \* position of the driver process
    data_files,     \* run_mappers: the regular files found by glob
    pending,        \* pool: submitted tasks no worker has taken yet
    running,        \* pool: tasks being executed by a worker
    future,         \* pool: task -> outcome of its mapper call
    mapper_results, \* run_mappers: results collected from executor.map
    saved,          \* run_mappers: iterations of the save loop completed
    mapper_files,   \* reducer: discovered record files still to be read
    final_counts    \* reducer: the merged mapping

vars == <<dataDir, outdir, report, written, log, pc, data_files, pending,
          running, future, mapper_results, saved, mapper_files, final_counts>>

(***************************************************************************)
(* Bounds of the model.                                                    *)
(***************************************************************************)
MaxFiles == 2       \* entries of DATA_DIR in a pipeline run
MaxStale == 1       \* records left in REDUCER_DIR by earlier runs
MaxPoolFiles == 5   \* entries of DATA_DIR when run_mappers is checked alone
MaxRec == 3         \* record files when reducer is checked alone

(***************************************************************************)
(* Program constants.                                                      *)
(***************************************************************************)
max_workers == 4
TopK == 6

(***************************************************************************)
(* Text and integer conversion: str.strip, int(), str().                   *)
(***************************************************************************)
Digits == <<"0", "1", "2", "3", "4", "5", "6", "7", "8", "9">>

IsDigit(c) == \E i \in DOMAIN Digits : Digits[i] = c

DigitVal(c) == (CHOOSE i \in DOMAIN Digits : Digits[i] = c) - 1

Whitespace == {" ", "\n"}

RECURSIVE LStrip(_)
LStrip(s) == IF s # <<>> /\ Head(s) \in Whitespace THEN LStrip(Tail(s)) ELSE s

RECURSIVE RStrip(_)
RStrip(s) ==
    IF s # <<>> /\ s[Len(s)] \in Whitespace
    THEN RStrip(SubSeq(s, 1, Len(s) - 1))
    ELSE s

strip(s) == RStrip(LStrip(s))

RECURSIVE DigitsValue(_)
DigitsValue(s) ==
    IF s = <<>> THEN 0
    ELSE 10 * DigitsValue(SubSeq(s, 1, Len(s) - 1)) + DigitVal(s[Len(s)])

\* int(text): ok = FALSE stands for ValueError
py_int(text) ==
    LET s    == strip(text)
        sign == s # <<>> /\ Head(s) \in {"-", "+"}
        body == IF sign THEN Tail(s) ELSE s
        ok   == body # <<>> /\ \A i \in DOMAIN body : IsDigit(body[i])
    IN  [ok  |-> ok,
         val |-> IF ~ok THEN 0
                 ELSE IF sign /\ Head(s) = "-" THEN 0 - DigitsValue(body)
                 ELSE DigitsValue(body)]

RECURSIVE NatStr(_)
NatStr(n) ==
    IF n < 10 THEN <<Digits[n + 1]>>
    ELSE Append(NatStr(n \div 10), Digits[(n % 10) + 1])

\* str(n), the form in which json.dump writes an integer key
py_str(n) == IF n < 0 THEN <<"-">> \o NatStr(0 - n) ELSE NatStr(n)

(***************************************************************************)
(* Dictionaries.                                                           *)
(***************************************************************************)
DictKeys(d) == {d[i][1] : i \in DOMAIN d}

DictGet(d, k) ==
    IF k \in DictKeys(d)
    THEN d[CHOOSE i \in DOMAIN d : d[i][1] = k][2]
    ELSE 0

\* the slip d[k] = c: the last record's count replaces the sum
DictAddOverwrite(d, k, c) ==
    IF k \in DictKeys(d)
    THEN [i \in DOMAIN d |-> IF d[i][1] = k THEN <<k, c>> ELSE d[i]]
    ELSE Append(d, <<k, c>>)

\* d[k] += c on a defaultdict(int)
DictAdd(d, k, c) ==
    IF k \in DictKeys(d)
    THEN [i \in DOMAIN d |-> IF d[i][1] = k THEN <<k, d[i][2] + c>> ELSE d[i]]
    ELSE Append(d, <<k, c>>)

(***************************************************************************)
(* mapper                                                                  *)
(***************************************************************************)
RECURSIVE CountLines(_, _)
CountLines(lines, counts) ==
    IF lines = <<>> THEN counts
    ELSE LET num == py_int(strip(Head(lines)))
         IN  CountLines(Tail(lines),
                        IF num.ok THEN DictAdd(counts, num.val, 1) ELSE counts)

\* raised = TRUE: open() raised something other than FileNotFoundError
mapper(file) ==
    IF ~file.exists THEN [raised |-> FALSE, warned |-> TRUE, counts |-> <<>>]
    ELSE IF ~file.readable THEN [raised |-> TRUE, warned |-> FALSE, counts |-> <<>>]
    ELSE [raised |-> FALSE, warned |-> FALSE, counts |-> CountLines(file.lines, <<>>)]

(***************************************************************************)
(* Files.  An entry of DATA_DIR: isfile is os.path.isfile at glob time,    *)
(* exists and readable are what open() finds when the mapper runs.         *)
(***************************************************************************)
Line(chars) == chars \o <<"\n">>

FileA ==
    [isfile |-> TRUE, exists |-> TRUE, readable |-> TRUE,
     lines |-> <<Line(<<"1">>), Line(<<"1">>), Line(<<"2">>)>>]

FileB ==
    [isfile |-> TRUE, exists |-> TRUE, readable |-> TRUE,
     lines |-> <<Line(<<"1">>), Line(<<"a", "b", "c">>), Line(<<>>),
                 Line(<<" ", "3">>), Line(<<"3">>), Line(<<"3", " ">>), <<"3">>>>]

\* removed between glob and open
FileGone == [isfile |-> TRUE, exists |-> FALSE, readable |-> FALSE, lines |-> <<>>]

\* present, but open() is refused
FileLocked == [isfile |-> TRUE, exists |-> TRUE, readable |-> FALSE, lines |-> <<>>]

SubDir == [isfile |-> FALSE, exists |-> TRUE, readable |-> TRUE, lines |-> <<>>]

SeqsUpTo(S, n) == UNION {[1..m -> S] : m \in 0..n}

(***************************************************************************)
(* A file of REDUCER_DIR.  body is what json.load makes of the content:    *)
(*   object   a JSON object, items = its <<key text, value>> members       *)
(*   array    valid JSON that is not an object                             *)
(*   garbage  not valid JSON                                               *)
(***************************************************************************)
NoBody == [kind |-> "none", items |-> <<>>]

NoFile == [present |-> FALSE, dangling |-> FALSE, readable |-> FALSE, body |-> NoBody]

RegularFile(body) ==
    [present |-> TRUE, dangling |-> FALSE, readable |-> TRUE, body |-> body]

\* json.dump(result, f): integer keys become their decimal text
json_dump(result) ==
    [kind  |-> "object",
     items |-> [i \in DOMAIN result |-> <<py_str(result[i][1]), result[i][2]>>]]

\* open(path, 'w') followed by the dump
WriteFile(old, body) ==
    [present  |-> TRUE,
     dangling |-> FALSE,
     readable |-> IF old.present /\ ~old.dangling THEN old.readable ELSE TRUE,
     body     |-> body]

RecordName(i) == <<"mapper_output", i>>

ReportName == <<"final_output">>

NoReport == [present |-> FALSE, lines |-> <<>>]

(***************************************************************************)
(* run_mappers                                                             *)
(***************************************************************************)
RECURSIVE RegularFiles(_, _)
RegularFiles(dir, i) ==
    IF i > Len(dir) THEN <<>>
    ELSE (IF dir[i].isfile THEN <<i>> ELSE <<>>) \o RegularFiles(dir, i + 1)

NumFiles == Len(data_files)

\* os.makedirs, glob and the isfile filter; either the "no data files"
\* return or the submission of one task per file to the pool
RunMappersGlob ==
    /\ pc = "run_mappers"
    /\ data_files' = RegularFiles(dataDir, 1)
    /\ IF data_files' = <<>>
       THEN /\ log' = log \cup {"NoInput"}
            /\ pc' = "reducer"
            /\ pending' = {}
       ELSE /\ log' = log
            /\ pc' = "pool"
            /\ pending' = DOMAIN data_files'
    /\ UNCHANGED <<dataDir, outdir, report, written, running, future,
                   mapper_results, saved, mapper_files, final_counts>>

NextTask == CHOOSE i \in pending : \A j \in pending : i <= j

\* an idle worker process takes the oldest task of the queue
StartTask ==
    /\ pc = "pool"
    /\ pending # {}
    /\ Cardinality(running) < max_workers
    /\ running' = running \cup {NextTask}
    /\ pending' = pending \ {NextTask}
    /\ UNCHANGED <<dataDir, outdir, report, written, log, pc, data_files, future,
                   mapper_results, saved, mapper_files, final_counts>>

\* a worker finishes mapper(data_files[i]); workers finish in any order
FinishTask(i) ==
    /\ pc \in {"pool", "pool_abort"}
    /\ i \in running
    /\ LET res == mapper(dataDir[data_files[i]])
       IN  /\ future' = [future EXCEPT ![i] = [done |-> TRUE, raised |-> res.raised,
                                               counts |-> res.counts]]
           /\ log' = IF res.warned THEN log \cup {"FileNotFound"} ELSE log
    /\ running' = running \ {i}
    /\ UNCHANGED <<dataDir, outdir, report, written, pc, data_files, pending,
                   mapper_results, saved, mapper_files, final_counts>>

\* the slip of collecting in completion order (as_completed): the latest
\* task that has finished and lies beyond the results collected so far
CollectIndexCompleted ==
    LET ready == {i \in DOMAIN data_files : i > Len(mapper_results) /\ future[i].done}
    IN  IF ready = {} THEN Len(mapper_results) + 1
        ELSE CHOOSE i \in ready : \A j \in ready : j <= i

\* the task whose result list(executor.map(...)) waits for next
CollectIndex == Len(mapper_results) + 1

\* list(executor.map(mapper, data_files)) takes the next result, in
\* submission order; an exception of the task is raised here, and the
\* tasks not yet started are cancelled
CollectResult ==
    /\ pc = "pool"
    /\ CollectIndex <= NumFiles
    /\ future[CollectIndex].done
    /\ IF future[CollectIndex].raised
       THEN /\ pending' = {}
            /\ pc' = "pool_abort"
            /\ UNCHANGED mapper_results
       ELSE /\ mapper_results' = Append(mapper_results, future[CollectIndex].counts)
            /\ pc' = IF CollectIndex = NumFiles THEN "save" ELSE "pool"
            /\ UNCHANGED pending
    /\ UNCHANGED <<dataDir, outdir, report, written, log, data_files, running,
                   future, saved, mapper_files, final_counts>>

\* the with-block waits for the running workers, then the exception leaves
\* run_mappers and main
PoolAbort ==
    /\ pc = "pool_abort"
    /\ running = {}
    /\ pc' = "crashed"
    /\ UNCHANGED <<dataDir, outdir, report, written, log, data_files, pending,
                   running, future, mapper_results, saved, mapper_files,
                   final_counts>>

\* the slip of leaving the save loop after its first iteration
AfterSaveEarly(i, n) == "reducer"

\* where the driver goes after completing iteration i of the save loop
AfterSave(i, n) == IF i = n THEN "reducer" ELSE "save"

\* one iteration of the save loop: mapper_output_<i>.json, i counted from 0
SaveResult ==
    /\ pc = "save"
    /\ LET i == saved
       IN  /\ outdir' = [j \in DOMAIN outdir \cup {i} |->
                           IF j = i
                           THEN WriteFile(IF i \in DOMAIN outdir THEN outdir[i] ELSE NoFile,
                                          json_dump(mapper_results[i + 1]))
                           ELSE outdir[j]]
           /\ written' = written \cup {RecordName(i)}
    /\ saved' = saved + 1
    /\ pc' = AfterSave(saved', NumFiles)
    /\ UNCHANGED <<dataDir, report, log, data_files, pending, running, future,
                   mapper_results, mapper_files, final_counts>>

(***************************************************************************)
(* reducer                                                                 *)
(***************************************************************************)
ListingOrders(S) ==
    {q \in [1..Cardinality(S) -> S] : \A i, j \in DOMAIN q : i # j => q[i] # q[j]}

\* a glob restricted to the records this run has written
DiscoveredWritten(dir) == {i \in DOMAIN dir : dir[i].present /\ RecordName(i) \in written}

\* the files matched by glob('*.json'), a dangling link included
Discovered(dir) == {i \in DOMAIN dir : dir[i].present}

\* for num, count in data.items(): final_counts[int(num)] += count
\* raised = TRUE: int(num) raised ValueError, after the earlier items were added
RECURSIVE AddItems(_, _)
AddItems(counts, items) ==
    IF items = <<>> THEN [raised |-> FALSE, counts |-> counts]
    ELSE LET num == py_int(Head(items)[1])
         IN  IF ~num.ok THEN [raised |-> TRUE, counts |-> counts]
             ELSE AddItems(DictAdd(counts, num.val, Head(items)[2]), Tail(items))

\* the body of the reducer's loop for one file:
\*   skipped  FileNotFoundError or JSONDecodeError, caught and printed
\*   raised   any other exception; it leaves reducer and main
ReadRecord(counts, file) ==
    IF file.dangling THEN [status |-> "skipped", counts |-> counts]
    ELSE IF ~file.readable THEN [status |-> "raised", counts |-> counts]
    ELSE IF file.body.kind = "garbage" THEN [status |-> "skipped", counts |-> counts]
    ELSE IF file.body.kind # "object" THEN [status |-> "raised", counts |-> counts]
    ELSE LET r == AddItems(counts, file.body.items)
         IN  [status |-> IF r.raised THEN "raised" ELSE "ok", counts |-> r.counts]

\* glob of REDUCER_DIR, in whatever order the directory lists the files
ReducerGlob ==
    /\ pc = "reducer"
    /\ \E order \in ListingOrders(Discovered(outdir)) :
          mapper_files' = order
    /\ IF mapper_files' = <<>>
       THEN /\ log' = log \cup {"NoMapperOutputs"}
            /\ pc' = "done"
       ELSE /\ log' = log
            /\ pc' = "reduce_loop"
    /\ final_counts' = <<>>
    /\ UNCHANGED <<dataDir, outdir, report, written, data_files, pending, running,
                   future, mapper_results, saved>>

\* one iteration of the aggregation loop
ReducerRead ==
    /\ pc = "reduce_loop"
    /\ mapper_files # <<>>
    /\ LET r == ReadRecord(final_counts, outdir[Head(mapper_files)])
       IN  /\ final_counts' = r.counts
           /\ pc' = IF r.status = "raised" THEN "crashed" ELSE "reduce_loop"
           /\ log' = IF r.status = "skipped" THEN log \cup {"RecordError"} ELSE log
    /\ mapper_files' = Tail(mapper_files)
    /\ UNCHANGED <<dataDir, outdir, report, written, data_files, pending, running,
                   future, mapper_results, saved>>

\* insertion of e behind every entry whose count is at least e's
RECURSIVE InsertDesc(_, _)
InsertDesc(s, e) ==
    IF s = <<>> THEN <<e>>
    ELSE IF Head(s)[2] >= e[2] THEN <<Head(s)>> \o InsertDesc(Tail(s), e)
    ELSE <<e>> \o s

\* the slip of not sorting at all
Unsorted(items) == items

\* sorted(items, key=lambda item: item[1], reverse=True): a stable sort,
\* entries of equal count stay in the order of items
RECURSIVE SortedDesc(_)
SortedDesc(items) ==
    IF items = <<>> THEN <<>>
    ELSE InsertDesc(SortedDesc(SubSeq(items, 1, Len(items) - 1)), items[Len(items)])

\* sorted_counts[:TopK]
Truncate(s) == SubSeq(s, 1, IF Len(s) < TopK THEN Len(s) ELSE TopK)

\* "Number: {num}, Frequency: {count}"
ReportLine(item) == [Number |-> py_str(item[1]), Frequency |-> py_str(item[2])]

ReportLines(counts) ==
    LET top == Truncate(SortedDesc(counts))
    IN  [i \in DOMAIN top |-> ReportLine(top[i])]

\* after the loop: sort, then write the header and the top lines
ReducerReport ==
    /\ pc = "reduce_loop"
    /\ mapper_files = <<>>
    /\ report' = [present |-> TRUE, lines |-> ReportLines(final_counts)]
    /\ written' = written \cup {ReportName}
    /\ pc' = "done"
    /\ UNCHANGED <<dataDir, outdir, log, data_files, pending, running, future,
                   mapper_results, saved, mapper_files, final_counts>>

(***************************************************************************)
(* Initial states.                                                         *)
(***************************************************************************)
NoFuture == [done |-> FALSE, raised |-> FALSE, counts |-> <<>>]

\* records an earlier run can have left behind
RecS ==
    RegularFile([kind |-> "object",
                 items |-> << <<<<"4">>, 1>>, <<<<"5">>, 1>>, <<<<"6">>, 1>>,
                              <<<<"0", "7">>, 1>> >>])

RecGarbage == RegularFile([kind |-> "garbage", items |-> <<>>])

RecArray == RegularFile([kind |-> "array", items |-> <<>>])

RecBadKey ==
    RegularFile([kind |-> "object", items |-> << <<<<"1">>, 2>>, <<<<"a">>, 1>> >>])

RecA == RegularFile(json_dump(mapper(FileA).counts))

RecB == RegularFile(json_dump(mapper(FileB).counts))

RecLocked == [RecA EXCEPT !.readable = FALSE]

RecDangling == [present |-> TRUE, dangling |-> TRUE, readable |-> FALSE, body |-> NoBody]

InitLocals ==
    /\ report = NoReport
    /\ written = {}
    /\ log = {}
    /\ data_files = <<>>
    /\ pending = {}
    /\ running = {}
    /\ mapper_results = <<>>
    /\ saved = 0
    /\ mapper_files = <<>>
    /\ final_counts = <<>>

\* main: any listing of up to MaxFiles entries, and an output directory
\* holding up to MaxStale records of earlier runs
Init ==
    /\ dataDir \in SeqsUpTo({FileA, FileB, FileGone, FileLocked, SubDir}, MaxFiles)
    /\ outdir \in {d \in [0..MaxFiles -> {NoFile, RecS, RecGarbage}] :
                      Cardinality({i \in DOMAIN d : d[i].present}) <= MaxStale}
    /\ future = [i \in 1..MaxFiles |-> NoFuture]
    /\ pc = "run_mappers"
    /\ InitLocals

Next ==
    \/ RunMappersGlob
    \/ StartTask
    \/ \E i \in running : FinishTask(i)
    \/ CollectResult
    \/ PoolAbort
    \/ SaveResult
    \/ ReducerGlob
    \/ ReducerRead
    \/ ReducerReport

Spec == Init /\ [][Next]_vars

\* run_mappers alone, over more files than the pool has workers
InitPool ==
    /\ dataDir \in SeqsUpTo({FileA, FileB, FileLocked}, MaxPoolFiles)
    /\ outdir = [i \in 0..(MaxPoolFiles - 1) |-> NoFile]
    /\ future = [i \in 1..MaxPoolFiles |-> NoFuture]
    /\ pc = "run_mappers"
    /\ InitLocals

NextPool ==
    \/ RunMappersGlob
    \/ StartTask
    \/ \E i \in running : FinishTask(i)
    \/ CollectResult
    \/ PoolAbort
    \/ SaveResult

SpecPool == InitPool /\ [][NextPool]_vars

\* reducer alone, over any output directory of up to MaxRec record files
InitReducer ==
    /\ dataDir = <<>>
    /\ \E n \in 0..MaxRec :
          outdir \in [0..(n - 1) -> {RecA, RecB, RecS, RecGarbage, RecArray,
                                     RecBadKey, RecLocked, RecDangling}]
    /\ future = <<>>
    /\ pc = "reducer"
    /\ InitLocals

NextReducer ==
    \/ ReducerGlob
    \/ ReducerRead
    \/ ReducerReport

SpecReducer == InitReducer /\ [][NextReducer]_vars

(***************************************************************************)
(* Vocabulary of the properties.                                           *)
(***************************************************************************)
ReportWritten == ReportName \in written

\* the aggregation loop has run to its end
MergeComplete ==
    \/ pc = "reduce_loop" /\ mapper_files = <<>>
    \/ pc = "done" /\ ReportWritten

\* a record that decodes to an integer-keyed mapping
ValidRecord(f) ==
    /\ f.present /\ ~f.dangling /\ f.readable
    /\ f.body.kind = "object"
    /\ \A i \in DOMAIN f.body.items : py_int(f.body.items[i][1]).ok

RecordFiles == {i \in DOMAIN outdir : outdir[i].present}

ValidFiles == {i \in RecordFiles : ValidRecord(outdir[i])}

RecordKeys(f) == {py_int(f.body.items[i][1]).val : i \in DOMAIN f.body.items}

RECURSIVE SumItems(_, _)
SumItems(items, k) ==
    IF items = <<>> THEN 0
    ELSE (IF py_int(Head(items)[1]).val = k THEN Head(items)[2] ELSE 0)
         + SumItems(Tail(items), k)

RECURSIVE SumRecords(_, _)
SumRecords(S, k) ==
    IF S = {} THEN 0
    ELSE LET i == CHOOSE j \in S : TRUE
         IN  SumItems(outdir[i].body.items, k) + SumRecords(S \ {i}, k)

RECURSIVE SumResults(_, _)
SumResults(results, k) ==
    IF results = <<>> THEN 0
    ELSE DictGet(Head(results), k) + SumResults(Tail(results), k)

\* counts is a mapping (no key twice)
IsMapping(counts) == Cardinality(DictKeys(counts)) = Len(counts)

\* counts is the pointwise sum of the records S of the output directory
MergedFrom(counts, S) ==
    /\ IsMapping(counts)
    /\ DictKeys(counts) = UNION {RecordKeys(outdir[i]) : i \in S}
    /\ \A k \in DictKeys(counts) : DictGet(counts, k) = SumRecords(S, k)

Entries(counts) == {counts[i] : i \in DOMAIN counts}

\* a record file read back as an integer-keyed mapping
DecodeRecord(f) ==
    [i \in DOMAIN f.body.items |->
        <<py_int(f.body.items[i][1]).val, f.body.items[i][2]>>]

\* the lines of the report file read back as <<key, count>> pairs
ReportEntries ==
    [i \in DOMAIN report.lines |->
        <<py_int(report.lines[i].Number).val, py_int(report.lines[i].Frequency).val>>]

EmptyInput == pc # "run_mappers" /\ data_files = <<>>

(***************************************************************************)
(* C1: with an empty Input File Set, main reports NoInput, writes no       *)
(* Partial Record and no report file, and never invokes the reducer: the   *)
(* driver goes no further than the return of run_mappers.                  *)
(***************************************************************************)
C1_EmptyInputHalts ==
    EmptyInput => /\ "NoInput" \in log
                  /\ written = {}
                  /\ pc = "reducer"

(***************************************************************************)
(* C2: a reducer that collects no valid Partial Record (none discovered,   *)
(* or none that decodes) reports it and writes no report file.             *)
(***************************************************************************)
C2_NothingToAggregate ==
    (pc = "done" /\ ValidFiles = {}) => ~ReportWritten /\ ~report.present

(***************************************************************************)
(* C3: over valid Partial Records, in whatever order they are discovered,  *)
(* the Merged Mapping has the union of the records' keys as its keys and   *)
(* Merged[k] is the sum of Record[k] over the records that contain k.      *)
(***************************************************************************)
C3_MergeIsPointwiseSum ==
    (MergeComplete /\ ValidFiles = RecordFiles) => MergedFrom(final_counts, RecordFiles)

C3_Witness ==
    /\ MergeComplete
    /\ DOMAIN outdir = {0, 1}
    /\ {outdir[0], outdir[1]} = {RecA, RecB}
    /\ Entries(final_counts) = {<<1, 3>>, <<2, 1>>, <<3, 4>>}

(***************************************************************************)
(* C4: a Partial Record that fails to decode is skipped with a warning and *)
(* contributes nothing; the aggregation goes on, and the Merged Mapping is *)
(* the merge of the valid records only.                                    *)
(***************************************************************************)
C4_CorruptRecordSkipped ==
    /\ pc # "crashed"
    /\ MergeComplete => /\ MergedFrom(final_counts, ValidFiles)
                        /\ (ValidFiles # RecordFiles => "RecordError" \in log)

(***************************************************************************)
(* C5: a mapper whose file does not exist or cannot be opened yields an    *)
(* empty mapping and a warning, and never aborts the pool or the pipeline. *)
(***************************************************************************)
Unopenable(file) == ~file.exists \/ ~file.readable

C5_MapperFailureIsolated ==
    /\ pc # "pool_abort"
    /\ \A i \in DOMAIN data_files :
          (future[i].done /\ Unopenable(dataDir[data_files[i]]))
             => /\ ~future[i].raised
                /\ future[i].counts = <<>>
                /\ "FileNotFound" \in log

(***************************************************************************)
(* C6: whatever the interleaving and completion order of the workers, the  *)
(* result sequence follows the input order: result[i] is the mapper result *)
(* of file[i], all N of them once the pool has returned, and the record    *)
(* mapper_output_<i>.json holds the mapping of file[i].                    *)
(***************************************************************************)
C6_IndexStable ==
    /\ \A i \in DOMAIN mapper_results :
          mapper_results[i] = mapper(dataDir[data_files[i]]).counts
    /\ pc \in {"save", "reducer"} => Len(mapper_results) = NumFiles
    /\ \A i \in 0..(saved - 1) :
          /\ outdir[i].present
          /\ DecodeRecord(outdir[i]) = mapper(dataDir[data_files[i + 1]]).counts

\* more files than workers, and a task finished before an earlier one that
\* the collection is still waiting for
C6_Witness ==
    /\ pc = "pool"
    /\ NumFiles > max_workers
    /\ Len(mapper_results) >= 1
    /\ ~future[CollectIndex].done
    /\ \E j \in DOMAIN data_files :
          /\ j > CollectIndex
          /\ future[j].done
          /\ future[j].counts # mapper(dataDir[data_files[CollectIndex]]).counts

(***************************************************************************)
(* C7: the report of a non-empty Merged Mapping M has min(6, |M|) entries  *)
(* of M, each key once with its merged count, in non-increasing order of   *)
(* count, and no entry left out has a larger count than an entry kept.     *)
(***************************************************************************)
C7_TopSix ==
    (pc = "done" /\ ReportWritten /\ final_counts # <<>>) =>
        LET R == ReportEntries
            M == final_counts
        IN  /\ Len(R) = IF Len(M) < 6 THEN Len(M) ELSE 6
            /\ \A i \in DOMAIN R : R[i] \in Entries(M)
            /\ \A i, j \in DOMAIN R : i # j => R[i][1] # R[j][1]
            /\ \A i, j \in DOMAIN R : i < j => R[i][2] >= R[j][2]
            /\ \A e \in Entries(M) \ Entries(R) : \A i \in DOMAIN R : e[2] <= R[i][2]

C7_Witness ==
    /\ pc = "done"
    /\ ReportWritten
    /\ Len(final_counts) = 7
    /\ Len(report.lines) = 6
    /\ \E i \in DOMAIN final_counts : final_counts[i] \notin Entries(ReportEntries)

(***************************************************************************)
(* C8: the Ranked Report is the same for every discovery order of the same *)
(* set of Partial Records: ties are broken by one fixed rule.              *)
(***************************************************************************)
RECURSIVE MergeInOrder(_, _)
MergeInOrder(counts, order) ==
    IF order = <<>> THEN counts
    ELSE MergeInOrder(ReadRecord(counts, outdir[Head(order)]).counts, Tail(order))

C8_ReportIndependentOfOrder ==
    (pc = "done" /\ ReportWritten) =>
        \A order \in ListingOrders(RecordFiles) :
            ReportLines(MergeInOrder(<<>>, order)) = report.lines

(***************************************************************************)
(* C9: the reducer starts, and so reads its first record, only after every *)
(* mapper call of the run has completed and every Partial Record of the    *)
(* run has been written.                                                   *)
(***************************************************************************)
C9_ReadAfterWrites ==
    pc \in {"reducer", "reduce_loop", "done"} =>
        /\ pending = {}
        /\ running = {}
        /\ \A i \in DOMAIN data_files : future[i].done
        /\ saved = NumFiles
        /\ \A i \in 0..(NumFiles - 1) : RecordName(i) \in written /\ outdir[i].present

C9_Witness ==
    /\ pc = "reduce_loop"
    /\ NumFiles = MaxFiles
    /\ Len(mapper_files) < Cardinality(RecordFiles)

(***************************************************************************)
(* C10, as claimed: after a run over N >= 1 files the Merged Mapping       *)
(* behind the report is the pointwise sum of exactly the N mapper results  *)
(* of this run, whatever the output directory held before.                 *)
(***************************************************************************)
C10_OnlyThisRun ==
    (pc = "done" /\ ReportWritten /\ NumFiles >= 1) =>
        /\ IsMapping(final_counts)
        /\ DictKeys(final_counts) =
              UNION {DictKeys(mapper_results[i]) : i \in DOMAIN mapper_results}
        /\ \A k \in DictKeys(final_counts) :
              DictGet(final_counts, k) = SumResults(mapper_results, k)

(***************************************************************************)
(* C10, amended: the Merged Mapping behind the report is the pointwise sum *)
(* of the N mapper results of this run and of every decodable record that  *)
(* an earlier run left under an index this run did not overwrite.          *)
(***************************************************************************)
Leftovers == {i \in ValidFiles : i >= NumFiles}

C10_ThisRunPlusLeftovers ==
    (pc = "done" /\ ReportWritten /\ NumFiles >= 1) =>
        /\ IsMapping(final_counts)
        /\ DictKeys(final_counts) =
              UNION ({DictKeys(mapper_results[i]) : i \in DOMAIN mapper_results}
                     \cup {RecordKeys(outdir[i]) : i \in Leftovers})
        /\ \A k \in DictKeys(final_counts) :
              DictGet(final_counts, k) =
                 SumResults(mapper_results, k) + SumRecords(Leftovers, k)

C10_Witness ==
    /\ pc = "done"
    /\ ReportWritten
    /\ NumFiles = 2
    /\ Leftovers # {}
    /\ \E k \in DictKeys(final_counts) :
          /\ SumRecords(Leftovers, k) > 0
          /\ SumResults(mapper_results, k) = 0

====
